---- MODULE Spec2Model ----
(***************************************************************************)
(* Declared-type resolution of mun_hir (crates/mun_hir/src/ty/lower.rs):   *)
(* lowering of syntactic type references to semantic types, the            *)
(* (definition, namespace) dispatch of type_for_def, cycle recovery, the   *)
(* per-item lowering result and callable signatures.                       *)
(***************************************************************************)
EXTENDS Integers, Sequences, FiniteSets, TLC

VARIABLES
    defs,      \* the definitions of the package: the aliases' and the function's data
    engine,    \* which values the query engine keeps: "memo_all" or "memo_acyclic"
    memo,      \* the query engine's memo of type_for_def, per type alias
    last,      \* the last operation that ran, with its arguments and its result (again:
               \* a types_from_hir of the item whose earlier result snap holds)
    snap       \* one earlier result of types_from_hir, kept to compare a later one with

vars == <<defs, engine, memo, last, snap>>

None == [none |-> TRUE]

\* ---------------------------------------------------------------- bounds

\* Longest reference arena of the function whose arena is drawn freely.
MaxArenaLen == 3
\* Most children of a Tuple reference in a freely drawn arena.
MaxArity == 2
\* Query nesting at which an evaluation is cut off and reported as runaway.
MaxDepth == 5

\* ------------------------------------------------- semantic types (TyKind)

TyUnknown == [k |-> "Unknown"]
TyNever == [k |-> "Never"]
TyBool == [k |-> "Bool"]
TyInt(kind) == [k |-> "Int", kind |-> kind]
TyFloat(kind) == [k |-> "Float", kind |-> kind]
TyTuple(n, elems) == [k |-> "Tuple", n |-> n, elems |-> elems]
TyArray(elem) == [k |-> "Array", elem |-> elem]
TyStruct(s) == [k |-> "Struct", s |-> s]
TyFnDef(callable, subst) == [k |-> "FnDef", def |-> callable, subst |-> subst]

SubstitutionEmpty == <<>>

\* ------------------------------------------ syntactic references (TypeRef)

TypeRefPath(path) == [v |-> "Path", path |-> path]
TypeRefError == [v |-> "Error"]
TypeRefTuple(inner) == [v |-> "Tuple", inner |-> inner]
TypeRefNever == [v |-> "Never"]
TypeRefArray(inner) == [v |-> "Array", inner |-> inner]

\* ------------------------------------------------------------ definitions

Modules == {"m1", "m2"}
Aliases == {"A", "B", "C"}
Structs == {"Tup", "Rec", "Unit"}
Functions == {"f"}
PrimitiveTypes == {"bool", "i32", "f64"}
Namespaces == {"Types", "Values"}

\* TypableDef
DefFunction(f) == [kind |-> "Function", id |-> f]
DefPrimitiveType(t) == [kind |-> "PrimitiveType", id |-> t]
DefStruct(s) == [kind |-> "Struct", id |-> s]
DefTypeAlias(t) == [kind |-> "TypeAlias", id |-> t]

TypableDefs ==
    {DefFunction(f) : f \in Functions} \cup {DefPrimitiveType(t) : t \in PrimitiveTypes}
        \cup {DefStruct(s) : s \in Structs} \cup {DefTypeAlias(t) : t \in Aliases}

\* CallableDef
CallableFunction(f) == [kind |-> "Function", id |-> f]
CallableStruct(s) == [kind |-> "Struct", id |-> s]

CallableDefs == {CallableFunction(f) : f \in Functions} \cup {CallableStruct(s) : s \in Structs}

\* PrimitiveType: Bool, Int(i), Float(f)
primitive(t) ==
    CASE t = "bool" -> [p |-> "Bool"]
      [] t = "i32" -> [p |-> "Int", kind |-> "i32"]
      [] t = "f64" -> [p |-> "Float", kind |-> "f64"]

Public == [vis |-> "Public"]
PrivateTo(m) == [vis |-> "Module", module |-> m]

\* The structs of the package: Tup is a tuple struct private to m2, Rec a record
\* struct of m1 with a field of alias type and a field of the private struct,
\* Unit a unit struct.
struct_data(s) ==
    CASE s = "Tup" -> [kind |-> "Tuple", module |-> "m2", visibility |-> PrivateTo("m2"),
                       type_ref_map |-> <<TypeRefPath("i32"), TypeRefPath("bool")>>,
                       fields |-> <<1, 2>>]
      [] s = "Rec" -> [kind |-> "Record", module |-> "m1", visibility |-> Public,
                       type_ref_map |-> <<TypeRefPath("A"), TypeRefPath("Tup")>>,
                       fields |-> <<1, 2>>]
      [] s = "Unit" -> [kind |-> "Unit", module |-> "m1", visibility |-> Public,
                        type_ref_map |-> <<>>, fields |-> <<>>]

\* Where each alias lives; its right-hand side is in defs.
alias_module(t) == IF t = "C" THEN "m2" ELSE "m1"
alias_visibility(t) == IF t = "C" THEN PrivateTo("m2") ELSE Public

type_alias_data(t) == defs.alias[t]
function_data(f) == defs.fn

\* The items that own a reference arena.
ItemFunction(f) == [item |-> "Function", id |-> f]
ItemStruct(s) == [item |-> "Struct", id |-> s]
ItemTypeAlias(t) == [item |-> "TypeAlias", id |-> t]

Items ==
    {ItemFunction(f) : f \in Functions} \cup {ItemStruct(s) : s \in Structs}
        \cup {ItemTypeAlias(t) : t \in Aliases}

item_type_ref_map(it) ==
    CASE it.item = "Function" -> function_data(it.id).type_ref_map
      [] it.item = "Struct" -> struct_data(it.id).type_ref_map
      [] it.item = "TypeAlias" -> type_alias_data(it.id).type_ref_map

item_module(it) ==
    CASE it.item = "Function" -> "m1"
      [] it.item = "Struct" -> struct_data(it.id).module
      [] it.item = "TypeAlias" -> alias_module(it.id)

\* ------------------------------------------------------- name resolution

\* The resolver of an item: the module the item is in (an Option in the code).
resolver_of(it) == [module |-> [some |-> item_module(it)]]

resolver_module(resolver) == resolver.module

\* Resolves a path in the type namespace: nothing, or the entry and its
\* visibility.
resolve_path_as_type_fully(resolver, path) ==
    CASE path \in Structs ->
            [ty |-> [ns |-> "StructId", id |-> path], vis |-> struct_data(path).visibility]
      [] path \in Aliases ->
            [ty |-> [ns |-> "TypeAliasId", id |-> path], vis |-> alias_visibility(path)]
      [] path \in PrimitiveTypes ->
            [ty |-> [ns |-> "PrimitiveType", id |-> path], vis |-> Public]
      [] OTHER -> None

is_visible_from(vis, module) == vis.vis = "Public" \/ vis.module = module

\* ------------------------------------------------------------ diagnostics

\* LowerDiagnostic
UnresolvedType(id) == [d |-> "UnresolvedType", id |-> id]
TypeIsPrivate(id) == [d |-> "TypeIsPrivate", id |-> id]
CyclicType(id) == [d |-> "CyclicType", id |-> id]

\* ------------------------------------------------------- the query engine

\* The database as one evaluation sees it: the memo, the type_for_def keys being
\* computed (innermost last), those of them found to take part in a cycle, and
\* whether the evaluation was cut off at MaxDepth.
db_of(m) == [memo |-> m, stack |-> <<>>, marked |-> {}, over |-> FALSE]

Key(def, ns) == <<def, ns>>

\* Only a type alias in the Types namespace has a body that reads other queries;
\* for every other key the body is a constant of the definition, so the memo
\* is kept for the aliases alone.
memo_key(def, ns) == def.kind = "TypeAlias" /\ ns = "Types"

memo_get(db, def, ns) == IF memo_key(def, ns) THEN db.memo[def.id] ELSE None

in_stack(stack, key) == \E i \in 1..Len(stack) : stack[i] = key

\* The keys of the stack from the innermost occurrence of key upward.
cycle_participants(stack, key) ==
    LET start == CHOOSE i \in 1..Len(stack) :
                     stack[i] = key /\ \A j \in (i + 1)..Len(stack) : stack[j] # key
    IN {stack[i] : i \in start..Len(stack)}

RECURSIVE from_hir_with_diagnostics(_, _, _, _, _)
RECURSIVE lower_inner(_, _, _, _, _, _)
RECURSIVE db_type_for_def(_, _, _)

\* ------------------------------------------------------- lowering (impl Ty)

Some(ty, is_cyclic) == [ty |-> ty, cyclic |-> is_cyclic]

\* Mutant: an unresolved path is taken for a resolved Unknown.
from_path_unresolved_as_unknown(db, resolver, type_ref, path, diagnostics) ==
    LET found == resolve_path_as_type_fully(resolver, path)
    IN IF found = None
       THEN [res |-> Some(TyUnknown, FALSE), diagnostics |-> diagnostics, db |-> db]
       ELSE LET def == CASE found.ty.ns = "StructId" -> DefStruct(found.ty.id)
                         [] found.ty.ns = "TypeAliasId" -> DefTypeAlias(found.ty.id)
                         [] found.ty.ns = "PrimitiveType" -> DefPrimitiveType(found.ty.id)
                module == resolver_module(resolver)
                diags == IF module # None /\ ~is_visible_from(found.vis, module.some)
                         THEN Append(diagnostics, TypeIsPrivate(type_ref))
                         ELSE diagnostics
                entry(r) == [res |-> r.val, diagnostics |-> diags, db |-> r.db]
            IN entry(db_type_for_def(db, def, "Types"))

\* Mutant: a private entry is diagnosed and its type replaced by Unknown.
from_path_private_suppressed(db, resolver, type_ref, path, diagnostics) ==
    LET found == resolve_path_as_type_fully(resolver, path)
    IN IF found = None
       THEN [res |-> None, diagnostics |-> diagnostics, db |-> db]
       ELSE LET def == CASE found.ty.ns = "StructId" -> DefStruct(found.ty.id)
                         [] found.ty.ns = "TypeAliasId" -> DefTypeAlias(found.ty.id)
                         [] found.ty.ns = "PrimitiveType" -> DefPrimitiveType(found.ty.id)
                module == resolver_module(resolver)
                private == module # None /\ ~is_visible_from(found.vis, module.some)
                entry(r) == [res |-> r.val, diagnostics |-> diagnostics, db |-> r.db]
            IN IF private
               THEN [res |-> Some(TyUnknown, FALSE),
                     diagnostics |-> Append(diagnostics, TypeIsPrivate(type_ref)), db |-> db]
               ELSE entry(db_type_for_def(db, def, "Types"))

\* Mutant: the diagnostics of expanding a type alias at the outermost level are
\* kept and appended to the referring item's list.
from_path_alias_diagnostics_kept(db, resolver, type_ref, path, diagnostics) ==
    LET found == resolve_path_as_type_fully(resolver, path)
    IN IF found = None
       THEN [res |-> None, diagnostics |-> diagnostics, db |-> db]
       ELSE LET def == CASE found.ty.ns = "StructId" -> DefStruct(found.ty.id)
                         [] found.ty.ns = "TypeAliasId" -> DefTypeAlias(found.ty.id)
                         [] found.ty.ns = "PrimitiveType" -> DefPrimitiveType(found.ty.id)
                module == resolver_module(resolver)
                diags == IF module # None /\ ~is_visible_from(found.vis, module.some)
                         THEN Append(diagnostics, TypeIsPrivate(type_ref))
                         ELSE diagnostics
                expansion ==
                    IF def.kind = "TypeAlias" /\ db.stack = <<>>
                    THEN from_hir_with_diagnostics(
                             [db EXCEPT !.stack = <<Key(def, "Types")>>],
                             resolver_of(ItemTypeAlias(def.id)),
                             type_alias_data(def.id).type_ref_map, <<>>,
                             type_alias_data(def.id).type_ref).diagnostics
                    ELSE <<>>
                entry(r) == [res |-> r.val, diagnostics |-> diags \o expansion, db |-> r.db]
            IN entry(db_type_for_def(db, def, "Types"))

from_path(db, resolver, type_ref, path, diagnostics) ==
    LET found == resolve_path_as_type_fully(resolver, path)
    IN IF found = None
       THEN [res |-> None, diagnostics |-> diagnostics, db |-> db]
       ELSE LET def == CASE found.ty.ns = "StructId" -> DefStruct(found.ty.id)
                         [] found.ty.ns = "TypeAliasId" -> DefTypeAlias(found.ty.id)
                         [] found.ty.ns = "PrimitiveType" -> DefPrimitiveType(found.ty.id)
                module == resolver_module(resolver)
                diags == IF module # None /\ ~is_visible_from(found.vis, module.some)
                         THEN Append(diagnostics, TypeIsPrivate(type_ref))
                         ELSE diagnostics
                entry(r) == [res |-> r.val, diagnostics |-> diags, db |-> r.db]
            IN entry(db_type_for_def(db, def, "Types"))

\* Mutant: the children's types are collected last child first.
lower_inner_reversed(db, resolver, type_ref_map, diagnostics, inner, tys) ==
    IF Len(tys) = Len(inner)
    THEN [tys |-> tys, diagnostics |-> diagnostics, db |-> db]
    ELSE LET rest(r) == lower_inner(r.db, resolver, type_ref_map, r.diagnostics, inner,
                                    <<r.ty>> \o tys)
         IN rest(from_hir_with_diagnostics(db, resolver, type_ref_map, diagnostics,
                                           inner[Len(tys) + 1]))

\* The closure of the Tuple arm, applied to the children from left to right.
lower_inner(db, resolver, type_ref_map, diagnostics, inner, tys) ==
    IF Len(tys) = Len(inner)
    THEN [tys |-> tys, diagnostics |-> diagnostics, db |-> db]
    ELSE LET rest(r) == lower_inner(r.db, resolver, type_ref_map, r.diagnostics, inner,
                                    Append(tys, r.ty))
         IN rest(from_hir_with_diagnostics(db, resolver, type_ref_map, diagnostics,
                                           inner[Len(tys) + 1]))

from_hir_with_diagnostics(db, resolver, type_ref_map, diagnostics, type_ref) ==
    LET node == type_ref_map[type_ref]
        tuple(r) == [res |-> Some(TyTuple(Len(node.inner), r.tys), FALSE),
                     diagnostics |-> r.diagnostics, db |-> r.db]
        array(r) == [res |-> Some(TyArray(r.ty), FALSE),
                     diagnostics |-> r.diagnostics, db |-> r.db]
        \* the match on res after the match on the reference
        finish(res) ==
            IF res.res # None
            THEN [ty |-> res.res.ty,
                  diagnostics |-> IF res.res.cyclic
                                  THEN Append(res.diagnostics, CyclicType(type_ref))
                                  ELSE res.diagnostics,
                  db |-> res.db]
            ELSE [ty |-> TyUnknown,
                  diagnostics |-> Append(res.diagnostics, UnresolvedType(type_ref)),
                  db |-> res.db]
    IN finish(CASE node.v = "Path" ->
                       from_path(db, resolver, type_ref, node.path, diagnostics)
                [] node.v = "Error" ->
                       [res |-> Some(TyUnknown, FALSE), diagnostics |-> diagnostics, db |-> db]
                [] node.v = "Tuple" ->
                       tuple(lower_inner(db, resolver, type_ref_map, diagnostics,
                                         node.inner, <<>>))
                [] node.v = "Never" ->
                       [res |-> Some(TyNever, FALSE), diagnostics |-> diagnostics, db |-> db]
                [] node.v = "Array" ->
                       array(from_hir_with_diagnostics(db, resolver, type_ref_map,
                                                       diagnostics, node.inner)))

from_hir(db, resolver, type_ref_map, type_ref) ==
    from_hir_with_diagnostics(db, resolver, type_ref_map, <<>>, type_ref)

\* ------------------------------------------------- declared types of items

\* Mutant: the recovery value does not say that it stands for a cycle.
type_for_cycle_recover_unflagged(db, cycle, def, ns) == Some(TyUnknown, FALSE)

type_for_cycle_recover(db, cycle, def, ns) == Some(TyUnknown, TRUE)

type_for_primitive(def) ==
    LET p == primitive(def)
    IN CASE p.p = "Float" -> TyFloat(p.kind)
         [] p.p = "Int" -> TyInt(p.kind)
         [] p.p = "Bool" -> TyBool

type_for_fn(db, def) == TyFnDef(CallableFunction(def), SubstitutionEmpty)

type_for_struct(db, def) == TyStruct(def)

\* Mutant: every struct's Values type is its Types type.
type_for_struct_constructor_no_fn(db, def) == type_for_struct(db, def)

type_for_struct_constructor(db, def) ==
    IF struct_data(def).kind = "Tuple"
    THEN TyFnDef(CallableStruct(def), SubstitutionEmpty)
    ELSE type_for_struct(db, def)

type_for_type_alias(db, def) ==
    LET data == type_alias_data(def)
        resolver == resolver_of(ItemTypeAlias(def))
        lowered(r) == [ty |-> r.ty, db |-> r.db]
    IN lowered(from_hir(db, resolver, data.type_ref_map, data.type_ref))

type_for_def(db, def, ns) ==
    LET pure(ty) == [val |-> Some(ty, FALSE), db |-> db]
        alias(r) == [val |-> Some(r.ty, FALSE), db |-> r.db]
    IN CASE def.kind = "Function" /\ ns = "Values" -> pure(type_for_fn(db, def.id))
         [] def.kind = "PrimitiveType" /\ ns = "Types" -> pure(type_for_primitive(def.id))
         [] def.kind = "Struct" /\ ns = "Values" -> pure(type_for_struct_constructor(db, def.id))
         [] def.kind = "Struct" /\ ns = "Types" -> pure(type_for_struct(db, def.id))
         [] def.kind = "TypeAlias" /\ ns = "Types" -> alias(type_for_type_alias(db, def.id))
         [] def.kind = "Function" /\ ns = "Types" -> pure(TyUnknown)
         [] def.kind = "PrimitiveType" /\ ns = "Values" -> pure(TyUnknown)
         [] def.kind = "TypeAlias" /\ ns = "Values" -> pure(TyUnknown)

\* The memoized query db.type_for_def with its cycle recovery: a memo hit is
\* returned as it is; a key that is being computed further down the stack is a
\* cycle, every key from there upward is marked and the recovery value is
\* returned in place of a recursion; otherwise the body runs, a marked key's
\* value is replaced by the recovery value, and the value is kept.
db_type_for_def(db, def, ns) ==
    LET key == Key(def, ns)
        keep(in_cycle) == memo_key(def, ns) /\ (engine = "memo_all" \/ ~in_cycle)
        store(rdb, val, in_cycle) ==
            [val |-> val,
             db |-> [rdb EXCEPT !.stack = db.stack,
                                !.marked = @ \ {key},
                                !.memo = IF keep(in_cycle) THEN [@ EXCEPT ![def.id] = val]
                                         ELSE @]]
        computed(r) ==
            IF key \in r.db.marked
            THEN store(r.db, type_for_cycle_recover(db, r.db.stack, def, ns), TRUE)
            ELSE store(r.db, r.val, FALSE)
    IN IF memo_get(db, def, ns) # None
       THEN [val |-> memo_get(db, def, ns), db |-> db]
       ELSE IF in_stack(db.stack, key)
       THEN [val |-> type_for_cycle_recover(db, db.stack, def, ns),
             db |-> [db EXCEPT !.marked = @ \cup cycle_participants(db.stack, key)]]
       ELSE IF Len(db.stack) >= MaxDepth
       THEN [val |-> Some(TyUnknown, FALSE), db |-> [db EXCEPT !.over = TRUE]]
       ELSE computed(type_for_def([db EXCEPT !.stack = Append(@, key)], def, ns))

\* ------------------------------------------------- the per-item result

\* ArenaMap::insert
arena_map_insert(map, id, ty) ==
    [i \in DOMAIN map \cup {id} |-> IF i = id THEN ty ELSE map[i]]

\* Mutant: a new result starts from the diagnostics of the result built before.
LowerTyMapStale ==
    [type_ref_to_type |-> <<>>,
     diagnostics |-> IF last.op = "types_from_hir" THEN last.result.diagnostics ELSE <<>>,
     unknown_ty |-> TyUnknown]

\* LowerTyMap::default(); type_ref_to_type is a partial map from reference ids.
LowerTyMapDefault == [type_ref_to_type |-> <<>>, diagnostics |-> <<>>, unknown_ty |-> TyUnknown]

\* Mutant: an id without an entry is unwrapped and the index panics.
Index_unwrap(map, expr) ==
    IF expr \in DOMAIN map.type_ref_to_type
    THEN map.type_ref_to_type[expr]
    ELSE [panic |-> "unwrap on None"]

\* impl Index<LocalTypeRefId> for LowerTyMap
Index(map, expr) ==
    IF expr \in DOMAIN map.type_ref_to_type THEN map.type_ref_to_type[expr] ELSE map.unknown_ty

RECURSIVE types_from_hir_loop(_, _, _, _, _)
\* Mutant: the arena is walked from its last id to its first.
types_from_hir_loop_descending(db, resolver, type_ref_map, result, id) ==
    IF id > Len(type_ref_map)
    THEN [result |-> result, db |-> db]
    ELSE LET at == Len(type_ref_map) + 1 - id
             rest(r) ==
                 types_from_hir_loop(r.db, resolver, type_ref_map,
                                     [result EXCEPT
                                          !.diagnostics = r.diagnostics,
                                          !.type_ref_to_type = arena_map_insert(@, at, r.ty)],
                                     id + 1)
         IN rest(from_hir_with_diagnostics(db, resolver, type_ref_map, result.diagnostics, at))

\* The for loop of types_from_hir over the arena's ids in id order.
types_from_hir_loop(db, resolver, type_ref_map, result, id) ==
    IF id > Len(type_ref_map)
    THEN [result |-> result, db |-> db]
    ELSE LET rest(r) ==
                 types_from_hir_loop(r.db, resolver, type_ref_map,
                                     [result EXCEPT
                                          !.diagnostics = r.diagnostics,
                                          !.type_ref_to_type = arena_map_insert(@, id, r.ty)],
                                     id + 1)
         IN rest(from_hir_with_diagnostics(db, resolver, type_ref_map, result.diagnostics, id))

types_from_hir(db, resolver, type_ref_map) ==
    types_from_hir_loop(db, resolver, type_ref_map, LowerTyMapDefault, 1)

lower_struct_query(db, s) ==
    types_from_hir(db, resolver_of(ItemStruct(s)), struct_data(s).type_ref_map)

lower_type_alias_query(db, t) ==
    types_from_hir(db, resolver_of(ItemTypeAlias(t)), type_alias_data(t).type_ref_map)

\* ---------------------------------------------------- callable signatures

RECURSIVE lower_params(_, _, _, _, _)
\* Mutant: the parameter types are collected last parameter first.
lower_params_reversed(db, resolver, type_ref_map, refs, tys) ==
    IF Len(tys) = Len(refs)
    THEN [tys |-> tys, db |-> db]
    ELSE LET rest(r) == lower_params(r.db, resolver, type_ref_map, refs, <<r.ty>> \o tys)
         IN rest(from_hir(db, resolver, type_ref_map, refs[Len(tys) + 1]))

\* The map over the parameter (or field) references, each lowered with
\* Ty::from_hir and its diagnostics dropped.
lower_params(db, resolver, type_ref_map, refs, tys) ==
    IF Len(tys) = Len(refs)
    THEN [tys |-> tys, db |-> db]
    ELSE LET rest(r) == lower_params(r.db, resolver, type_ref_map, refs, Append(tys, r.ty))
         IN rest(from_hir(db, resolver, type_ref_map, refs[Len(tys) + 1]))

FnSig(params, ret) == [params |-> params, ret |-> ret]

fn_sig_for_fn(db, def) ==
    LET data == function_data(def)
        resolver == resolver_of(ItemFunction(def))
        sig(params, ret) == [sig |-> FnSig(params, ret.ty), db |-> ret.db]
        with_params(ps) ==
            sig(ps.tys, from_hir(ps.db, resolver, data.type_ref_map, data.ret_type))
    IN with_params(lower_params(db, resolver, data.type_ref_map, data.params, <<>>))

fn_sig_for_struct_constructor(db, def) ==
    LET data == struct_data(def)
        resolver == resolver_of(ItemStruct(def))
        with_params(ps) == [sig |-> FnSig(ps.tys, type_for_struct(ps.db, def)), db |-> ps.db]
    IN with_params(lower_params(db, resolver, data.type_ref_map, data.fields, <<>>))

callable_item_sig(db, def) ==
    CASE def.kind = "Function" -> fn_sig_for_fn(db, def.id)
      [] def.kind = "Struct" -> fn_sig_for_struct_constructor(db, def.id)

\* ------------------------------------------------------------- the worlds

PathShape(t) == [type_ref_map |-> <<TypeRefPath(t)>>, type_ref |-> 1]
ArrayShape(t) == [type_ref_map |-> <<TypeRefPath(t), TypeRefArray(1)>>, type_ref |-> 2]
TupleShape(t, u) ==
    [type_ref_map |-> <<TypeRefPath(t), TypeRefPath(u), TypeRefTuple(<<1, 2>>)>>, type_ref |-> 3]

\* The right-hand sides each alias is drawn from: self reference, two- and
\* three-alias cycles, cycles through a tuple or an array, and acyclic ones
\* (a primitive, the private struct, an unresolved name).
AliasShapes(t) ==
    CASE t = "A" -> {PathShape("A"), PathShape("B"), PathShape("Missing"),
                     TupleShape("B", "C"), ArrayShape("C")}
      [] t = "B" -> {PathShape("A"), PathShape("C"), PathShape("Tup"), TupleShape("A", "C")}
      [] t = "C" -> {PathShape("A"), PathShape("B"), PathShape("C"), PathShape("f64"),
                     ArrayShape("B")}

\* fn f(i32, A) -> C, in module m1
FixedFn ==
    [type_ref_map |-> <<TypeRefPath("i32"), TypeRefPath("A"), TypeRefPath("C")>>,
     params |-> <<1, 2>>, ret_type |-> 3]

\* type A = i32; type B = C; type C = B (C is private to m2)
FixedAliases ==
    [t \in Aliases |-> CASE t = "A" -> PathShape("i32")
                         [] t = "B" -> PathShape("C")
                         [] t = "C" -> PathShape("B")]

\* The references a freely drawn arena may hold at id n: a leaf, or an Array or
\* Tuple of earlier ids (the children of a reference are allocated before it).
LeafPaths == {"i32", "Rec", "Tup", "Missing", "C"}

RECURSIVE SeqsUpTo(_, _)
SeqsUpTo(S, n) ==
    IF n = 0 THEN {<<>>}
    ELSE LET shorter == SeqsUpTo(S, n - 1)
         IN shorter \cup {Append(q, x) : q \in {r \in shorter : Len(r) = n - 1}, x \in S}

TypeRefsAt(n) ==
    {TypeRefPath(p) : p \in LeafPaths} \cup {TypeRefNever, TypeRefError}
        \cup {TypeRefArray(c) : c \in 1..(n - 1)}
        \cup {TypeRefTuple(cs) : cs \in SeqsUpTo(1..(n - 1), MaxArity)}

RECURSIVE ArenasOfLen(_)
ArenasOfLen(n) ==
    IF n = 0 THEN {<<>>}
    ELSE {Append(a, r) : a \in ArenasOfLen(n - 1), r \in TypeRefsAt(n)}

\* A function over a freely drawn arena: the last reference is the return type,
\* the ones from the second on are the parameters; the first reference of a
\* longer arena is part of the signature only as a child of a later reference.
FreeFns ==
    {[type_ref_map |-> a, params |-> [i \in 1..(Len(a) - 2) |-> i + 1], ret_type |-> Len(a)] :
        a \in UNION {ArenasOfLen(n) : n \in 1..MaxArenaLen}}

Engines == {"memo_all", "memo_acyclic"}

\* --------------------------------------------------------- the operations

InitCommon ==
    /\ engine \in Engines
    /\ memo = [t \in Aliases |-> None]
    /\ last = [op |-> "none"]
    /\ snap = None

AliasWorlds ==
    {al \in [Aliases -> UNION {AliasShapes(t) : t \in Aliases}] :
        \A t \in Aliases : al[t] \in AliasShapes(t)}

\* The package with its aliases drawn from AliasShapes and the fixed function.
Init ==
    /\ defs \in {[alias |-> al, fn |-> FixedFn] : al \in AliasWorlds}
    /\ InitCommon

\* The package with the fixed aliases and a function over a freely drawn arena.
InitArena ==
    /\ defs \in {[alias |-> FixedAliases, fn |-> fn] : fn \in FreeFns}
    /\ InitCommon

\* types_from_hir over the arena of an item, with the item's resolver (for a
\* struct and an alias through lower_struct_query and lower_type_alias_query).
TypesFromHir(it) ==
    LET db == db_of(memo)
        Returns(r) ==
            /\ last' = [op |-> "types_from_hir", item |-> it, result |-> r.result,
                        over |-> r.db.over, again |-> snap # None /\ snap.item = it]
            /\ memo' = r.db.memo
            /\ snap' \in {snap} \cup (IF snap = None
                                      THEN {[item |-> it, result |-> r.result]}
                                      ELSE {})
            /\ UNCHANGED <<defs, engine>>
    IN Returns(CASE it.item = "Struct" -> lower_struct_query(db, it.id)
                 [] it.item = "TypeAlias" -> lower_type_alias_query(db, it.id)
                 [] it.item = "Function" ->
                        types_from_hir(db, resolver_of(it), function_data(it.id).type_ref_map))

\* The query db.type_for_def(def, ns), asked from outside any other query.
TypeForDef(def, ns) ==
    LET Returns(r) ==
            /\ last' = [op |-> "type_for_def", def |-> def, ns |-> ns, result |-> r.val,
                        over |-> r.db.over]
            /\ memo' = r.db.memo
            /\ UNCHANGED <<defs, engine, snap>>
    IN Returns(db_type_for_def(db_of(memo), def, ns))

CallableItemSig(def) ==
    LET Returns(r) ==
            /\ last' = [op |-> "callable_item_sig", def |-> def, result |-> r.sig,
                        over |-> r.db.over]
            /\ memo' = r.db.memo
            /\ UNCHANGED <<defs, engine, snap>>
    IN Returns(callable_item_sig(db_of(memo), def))

\* Indexing the result of the last types_from_hir with a reference id, of the
\* arena or not.
IndexResult(expr) ==
    /\ last.op = "types_from_hir"
    /\ last' = [op |-> "index", item |-> last.item, map |-> last.result, expr |-> expr,
                result |-> Index(last.result, expr)]
    /\ UNCHANGED <<defs, engine, memo, snap>>

\* Lowering of the items, with declared-type queries of the aliases in between.
Next ==
    \/ \E it \in Items : TypesFromHir(it)
    \/ \E t \in Aliases : TypeForDef(DefTypeAlias(t), "Types")

Spec == Init /\ [][Next]_vars

\* The declared-type and signature queries, of every definition in both
\* namespaces.
NextQueries ==
    \/ \E def \in TypableDefs, ns \in Namespaces : TypeForDef(def, ns)
    \/ \E def \in CallableDefs : CallableItemSig(def)

SpecQueries == Init /\ [][NextQueries]_vars

\* Lowering, indexing and the signature of the function over a free arena.
NextArena ==
    \/ \E f \in Functions : TypesFromHir(ItemFunction(f))
    \/ \E expr \in 1..(MaxArenaLen + 1) : IndexResult(expr)
    \/ \E f \in Functions : CallableItemSig(CallableFunction(f))
    \/ \E t \in Aliases : TypeForDef(DefTypeAlias(t), "Types")

SpecArena == InitArena /\ [][NextArena]_vars

\* ------------------------------------------------------- helpers of the claims

\* How often diagnostic d occurs in the list.
Count(diagnostics, d) == Cardinality({i \in 1..Len(diagnostics) : diagnostics[i] = d})

DiagnosticsOfKind(diagnostics, kind) == {i \in 1..Len(diagnostics) : diagnostics[i].d = kind}

Lowered(it) == last.op = "types_from_hir" /\ last.item = it

Declared(def, ns) == last.op = "type_for_def" /\ last.def = def /\ last.ns = ns

\* type t = u; type u = t; (t = u: type t = t;)
TwoCycle(t, u) == defs.alias[t] = PathShape(u) /\ defs.alias[u] = PathShape(t)

InTwoCycle(path) == path \in Aliases /\ \E u \in Aliases : TwoCycle(path, u)

\* ---------------------------------------------------------------- claims

\* C1. Cycle termination: with type t = u and type u = t (or type t = t), the
\* lowering of either alias's item and the declared-type query of either alias
\* end without runaway nesting, whatever ran before; the declared type of each
\* alias in the Types namespace is the recovery value (Unknown, cyclic), the
\* one path reference of the item maps to Unknown, and the item's result holds
\* exactly one CyclicType diagnostic, keyed to that reference.
C1_CycleTermination ==
    \A t, u \in Aliases :
        TwoCycle(t, u) =>
            /\ Lowered(ItemTypeAlias(t)) =>
                   /\ ~last.over
                   /\ Index(last.result, 1) = TyUnknown
                   /\ Cardinality(DiagnosticsOfKind(last.result.diagnostics, "CyclicType")) = 1
                   /\ Count(last.result.diagnostics, CyclicType(1)) = 1
            /\ Declared(DefTypeAlias(t), "Types") =>
                   /\ ~last.over
                   /\ last.result = Some(TyUnknown, TRUE)

\* C1 witness: type A = B; type B = A; the item of B is lowered after the item
\* of A was, and holds its one CyclicType diagnostic.
C1_Witness ==
    /\ TwoCycle("A", "B")
    /\ Lowered(ItemTypeAlias("B"))
    /\ snap # None
    /\ snap.item = ItemTypeAlias("A")
    /\ snap.result.diagnostics = <<CyclicType(1)>>
    /\ last.result.diagnostics = <<CyclicType(1)>>

\* The ids of an arena, and whether a reference is a child of another one.
Ids(type_ref_map) == 1..Len(type_ref_map)

IsChild(type_ref_map, r) ==
    \E p \in Ids(type_ref_map) :
        \/ type_ref_map[p].v = "Array" /\ type_ref_map[p].inner = r
        \/ type_ref_map[p].v = "Tuple"
               /\ \E i \in 1..Len(type_ref_map[p].inner) : type_ref_map[p].inner[i] = r

\* A reference the loop of types_from_hir alone lowers.
TopLevel(type_ref_map, r) == r \in Ids(type_ref_map) /\ ~IsChild(type_ref_map, r)

IsPath(type_ref_map, r) == type_ref_map[r].v = "Path"

Resolution(it, r) ==
    resolve_path_as_type_fully(resolver_of(it), item_type_ref_map(it)[r].path)

Unresolved(it, r) == IsPath(item_type_ref_map(it), r) /\ Resolution(it, r) = None

Resolved(it, r) == IsPath(item_type_ref_map(it), r) /\ Resolution(it, r) # None

Private(it, r) ==
    Resolved(it, r) /\ ~is_visible_from(Resolution(it, r).vis, item_module(it))

TheFn == ItemFunction("f")

\* C2. Unresolved reference: when the resolver finds nothing for the path of a
\* reference r that only the loop of types_from_hir lowers (r is no child of a
\* tuple or array), the item's result maps r to Unknown and holds exactly one
\* UnresolvedType diagnostic keyed to r and no TypeIsPrivate or CyclicType one.
C2_UnresolvedReference ==
    Lowered(TheFn) =>
        \A r \in Ids(item_type_ref_map(TheFn)) :
            (Unresolved(TheFn, r) /\ TopLevel(item_type_ref_map(TheFn), r)) =>
                /\ Index(last.result, r) = TyUnknown
                /\ Count(last.result.diagnostics, UnresolvedType(r)) = 1
                /\ Count(last.result.diagnostics, TypeIsPrivate(r)) = 0
                /\ Count(last.result.diagnostics, CyclicType(r)) = 0

\* C2 witness: the return type of the lowered function names a type that does
\* not exist, next to a parameter of a private cyclic alias.
C2_Witness ==
    /\ Lowered(TheFn)
    /\ defs.fn.type_ref_map = <<TypeRefNever, TypeRefPath("C"), TypeRefPath("Missing")>>
    /\ defs.fn.ret_type = 3
    /\ last.result.diagnostics = <<TypeIsPrivate(2), CyclicType(2), UnresolvedType(3)>>

C5_Totality ==
    /\ Lowered(TheFn) =>
           DOMAIN last.result.type_ref_to_type = Ids(item_type_ref_map(TheFn))
    /\ last.op = "index" =>
           last.result = IF last.expr \in Ids(item_type_ref_map(last.item))
                         THEN last.map.type_ref_to_type[last.expr]
                         ELSE TyUnknown

\* C5 witness: the result over an arena whose first reference is neither a
\* parameter, the return type nor a child is indexed past its last id.
C5_Witness ==
    /\ last.op = "index"
    /\ defs.fn.type_ref_map = <<TypeRefPath("Missing"), TypeRefPath("Tup"), TypeRefPath("C")>>
    /\ last.expr = 4
    /\ last.result = TyUnknown
    /\ last.map.type_ref_to_type = <<TyUnknown, TyStruct("Tup"), TyUnknown>>

\* C6. Structural composition: a Tuple reference maps to Tuple(n, the types of
\* its children in their order), an Array reference to Array(the type of its
\* child), Never to Never and Error to Unknown, and no diagnostic is keyed to
\* a reference of one of these four variants.
C6_StructuralComposition ==
    Lowered(TheFn) =>
        \A r \in Ids(item_type_ref_map(TheFn)) :
            LET node == item_type_ref_map(TheFn)[r]
                ty == Index(last.result, r)
            IN /\ node.v = "Tuple" =>
                      ty = TyTuple(Len(node.inner),
                                   [i \in 1..Len(node.inner) |-> Index(last.result, node.inner[i])])
               /\ node.v = "Array" => ty = TyArray(Index(last.result, node.inner))
               /\ node.v = "Never" => ty = TyNever
               /\ node.v = "Error" => ty = TyUnknown
               /\ node.v # "Path" =>
                      \A i \in 1..Len(last.result.diagnostics) : last.result.diagnostics[i].id # r

\* C6 witness: (Missing, Never) lowers to Tuple(2, [Unknown, Never]), not to
\* Unknown.
C6_Witness ==
    /\ Lowered(TheFn)
    /\ defs.fn.type_ref_map = <<TypeRefPath("Missing"), TypeRefNever, TypeRefTuple(<<1, 2>>)>>
    /\ Index(last.result, 3) = TyTuple(2, <<TyUnknown, TyNever>>)

\* The diagnostics of one visit of reference r of the function's arena: of a
\* path, TypeIsPrivate when the entry is not visible, then UnresolvedType when
\* there is no entry or CyclicType when the entry is an alias of a two-alias
\* cycle; of a tuple or array, those of its children in child order.
RECURSIVE Visit(_, _)
RECURSIVE VisitAll(_, _, _)
Visit(it, r) ==
    LET node == item_type_ref_map(it)[r]
    IN CASE node.v = "Path" ->
                (IF Private(it, r) THEN <<TypeIsPrivate(r)>> ELSE <<>>)
                    \o (IF Unresolved(it, r) THEN <<UnresolvedType(r)>>
                        ELSE IF InTwoCycle(node.path) THEN <<CyclicType(r)>>
                        ELSE <<>>)
         [] node.v = "Tuple" -> VisitAll(it, node.inner, 1)
         [] node.v = "Array" -> Visit(it, node.inner)
         [] OTHER -> <<>>

\* The visits of refs[i], refs[i + 1], ... one after the other.
VisitAll(it, refs, i) ==
    IF i > Len(refs) THEN <<>> ELSE Visit(it, refs[i]) \o VisitAll(it, refs, i + 1)

\* C10. Diagnostic order: the diagnostics of an item's result are those of the
\* visits of its references in arena id order, a tuple's or array's children
\* visited depth-first in child order within the visit of the parent, and of
\* a path that is private and cyclic TypeIsPrivate before CyclicType.
C10_DiagnosticOrder ==
    Lowered(TheFn) =>
        last.result.diagnostics =
            VisitAll(TheFn, [i \in Ids(item_type_ref_map(TheFn)) |-> i], 1)

\* C10 witness: the children of the tuple are visited in child order, against
\* the id order, and the private cyclic alias C reports TypeIsPrivate first.
C10_Witness ==
    /\ Lowered(TheFn)
    /\ defs.fn.type_ref_map = <<TypeRefPath("Missing"), TypeRefPath("C"), TypeRefTuple(<<2, 1>>)>>
    /\ last.result.diagnostics =
           <<UnresolvedType(1), TypeIsPrivate(2), CyclicType(2),
             TypeIsPrivate(2), CyclicType(2), UnresolvedType(1)>>

\* The aliases the right-hand side of alias t names, and whether t reaches an
\* alias that reaches itself.
AliasPaths(t) ==
    {defs.alias[t].type_ref_map[r].path :
        r \in {q \in Ids(defs.alias[t].type_ref_map) : IsPath(defs.alias[t].type_ref_map, q)}}
        \cap Aliases

RECURSIVE Reach(_, _)
\* The aliases reached from the set S in at most n steps (n > 0: at least one).
Reach(S, n) ==
    IF n = 0 THEN {}
    ELSE LET next == UNION {AliasPaths(t) : t \in S} IN next \cup Reach(next, n - 1)

ReachesCycle(t) ==
    \E u \in Reach({t}, Cardinality(Aliases)) \cup {t} : u \in Reach({u}, Cardinality(Aliases))

\* The type an alias that reaches no cycle stands for, read off the
\* definitions: its right-hand side with every path replaced by what it names.
RECURSIVE Denote(_, _)
Denote(t, r) ==
    LET node == defs.alias[t].type_ref_map[r]
    IN CASE node.v = "Path" ->
                (CASE node.path \in Aliases -> Denote(node.path, defs.alias[node.path].type_ref)
                   [] node.path \in Structs -> TyStruct(node.path)
                   [] node.path = "bool" -> TyBool
                   [] node.path = "i32" -> TyInt("i32")
                   [] node.path = "f64" -> TyFloat("f64")
                   [] OTHER -> TyUnknown)
         [] node.v = "Tuple" ->
                TyTuple(Len(node.inner), [i \in 1..Len(node.inner) |-> Denote(t, node.inner[i])])
         [] node.v = "Array" -> TyArray(Denote(t, node.inner))
         [] node.v = "Never" -> TyNever
         [] node.v = "Error" -> TyUnknown

\* The dispatch table of type_for_def.
DispatchTable(def, ns) ==
    CASE def.kind = "Function" /\ ns = "Values" -> TyFnDef(CallableFunction(def.id), <<>>)
      [] def.kind = "PrimitiveType" /\ ns = "Types" ->
             (CASE def.id = "bool" -> TyBool
                [] def.id = "i32" -> TyInt("i32")
                [] def.id = "f64" -> TyFloat("f64"))
      [] def.kind = "Struct" /\ ns = "Types" -> TyStruct(def.id)
      [] def.kind = "Struct" /\ ns = "Values" ->
             IF def.id = "Tup" THEN TyFnDef(CallableStruct(def.id), <<>>) ELSE TyStruct(def.id)
      [] def.kind = "TypeAlias" /\ ns = "Types" ->
             from_hir(db_of(memo), resolver_of(ItemTypeAlias(def.id)),
                      defs.alias[def.id].type_ref_map, defs.alias[def.id].type_ref).ty
      [] OTHER -> TyUnknown

\* C4. Declared-type dispatch: in every state, for every definition and
\* namespace, type_for_def returns the type of the dispatch table with
\* cyclic = false, and so does the query for every key whose value is not
\* subject to cycle recovery; a tuple struct's Values type is a FnDef distinct
\* from its Types type, a record or unit struct's is its Types type; an alias
\* that reaches no cycle has the type its right-hand side denotes.
C4_DeclaredTypeDispatch ==
    /\ \A def \in TypableDefs, ns \in Namespaces :
           type_for_def(db_of(memo), def, ns).val = Some(DispatchTable(def, ns), FALSE)
    /\ last.op = "type_for_def" =>
           /\ ~memo_key(last.def, last.ns) =>
                  last.result = Some(DispatchTable(last.def, last.ns), FALSE)
           /\ (memo_key(last.def, last.ns) /\ ~ReachesCycle(last.def.id)) =>
                  last.result = Some(Denote(last.def.id, defs.alias[last.def.id].type_ref), FALSE)
    /\ \A s \in Structs :
           LET values == type_for_def(db_of(memo), DefStruct(s), "Values").val.ty
               types == type_for_def(db_of(memo), DefStruct(s), "Types").val.ty
           IN IF struct_data(s).kind = "Tuple" THEN values # types ELSE values = types

\* C4 witness: the constructor type of the tuple struct was asked for, in a
\* package where alias B stands for the tuple (Tup, f64) through A and C.
C4_Witness ==
    /\ Declared(DefStruct("Tup"), "Values")
    /\ last.result = Some(TyFnDef(CallableStruct("Tup"), <<>>), FALSE)
    /\ defs.alias["B"] = TupleShape("A", "C")
    /\ memo["B"] = Some(TyTuple(2, <<TyArray(TyFloat("f64")), TyFloat("f64")>>), FALSE)

\* The references a callable's signature is made of, and its resolver's item.
SigItem(def) == IF def.kind = "Function" THEN ItemFunction(def.id) ELSE ItemStruct(def.id)

SigParams(def) ==
    IF def.kind = "Function" THEN function_data(def.id).params ELSE struct_data(def.id).fields

LowerOne(it, r) == from_hir(db_of(memo), resolver_of(it), item_type_ref_map(it), r).ty

\* C7. Callable signature: the signature of a function is the lowered types
\* of its parameters in declaration order and the lowered return type; that
\* of a struct the lowered types of its fields in field order and Struct(the
\* struct); the signature carries no diagnostics.
C7_CallableSignature ==
    last.op = "callable_item_sig" =>
        LET it == SigItem(last.def)
            refs == SigParams(last.def)
        IN /\ DOMAIN last.result = {"params", "ret"}
           /\ last.result.params = [i \in 1..Len(refs) |-> LowerOne(it, refs[i])]
           /\ last.def.kind = "Function" =>
                  /\ last.result.ret = LowerOne(it, function_data(last.def.id).ret_type)
                  /\ last.result.params[1] = TyInt("i32")
           /\ last.def.kind = "Struct" => last.result.ret = TyStruct(last.def.id)
           /\ last.def = CallableStruct("Tup") => last.result.params = <<TyInt("i32"), TyBool>>

\* C7 witness: struct Rec { A, Tup } with type A = Missing: the signature is
\* (Unknown, Struct(Tup)) -> Struct(Rec), its two diagnostics not reported.
C7_Witness ==
    /\ last.op = "callable_item_sig"
    /\ last.def = CallableStruct("Rec")
    /\ defs.alias["A"] = PathShape("Missing")
    /\ last.result = FnSig(<<TyUnknown, TyStruct("Tup")>>, TyStruct("Rec"))

\* C8. Determinism: a types_from_hir of an item yields the result an earlier
\* types_from_hir of the same item yielded, types and diagnostics in their
\* order, whatever lowerings and declared-type queries ran in between.
C8_Determinism ==
    (last.op = "types_from_hir" /\ last.again) => last.result = snap.result

\* C8 witness: type A = (B, C); type B = A; type C = [B]: the item of A is
\* lowered again, in a database whose memo holds Array(Unknown) for C because
\* the declared type of A was asked for before the first lowering.
C8_Witness ==
    /\ Lowered(ItemTypeAlias("A"))
    /\ last.again
    /\ defs.alias["A"] = TupleShape("B", "C")
    /\ defs.alias["B"] = PathShape("A")
    /\ defs.alias["C"] = ArrayShape("B")
    /\ memo["C"] = Some(TyArray(TyUnknown), FALSE)
    /\ last.result.diagnostics =
           <<CyclicType(1), TypeIsPrivate(2), CyclicType(1), TypeIsPrivate(2)>>

\* C11. Diagnostics carry only own-arena ids: every diagnostic of an item's
\* result is keyed by an id of the item's own arena, and it is one the item's
\* own reference calls for (UnresolvedType only at a path of the item that does
\* not resolve, TypeIsPrivate only at a path of the item whose entry is not
\* visible from the item, CyclicType only at a path of the item that resolves
\* to a type alias); what the lowering of an alias's right-hand side finds in
\* the alias's arena is never in the referring item's list.
C11_OwnArenaIds ==
    last.op = "types_from_hir" =>
        \A i \in 1..Len(last.result.diagnostics) :
            LET d == last.result.diagnostics[i]
            IN /\ d.id \in Ids(item_type_ref_map(last.item))
               /\ IsPath(item_type_ref_map(last.item), d.id)
               /\ d.d = "UnresolvedType" => Unresolved(last.item, d.id)
               /\ d.d = "TypeIsPrivate" => Private(last.item, d.id)
               /\ d.d = "CyclicType" =>
                      /\ Resolved(last.item, d.id)
                      /\ Resolution(last.item, d.id).ty.ns = "TypeAliasId"

\* C11 witness: type B = A; type A = (B, C) with C private to another module:
\* the arena of A holds a private reference at id 2 and B's arena has the one
\* id 1; the item of B has been lowered and holds CyclicType(1) alone.
C11_Witness ==
    /\ Lowered(ItemTypeAlias("B"))
    /\ defs.alias["B"] = PathShape("A")
    /\ defs.alias["A"] = TupleShape("B", "C")
    /\ Private(ItemTypeAlias("A"), 2)
    /\ last.result.diagnostics = <<CyclicType(1)>>

\* C12. No duplicate diagnostics within one item: the diagnostics list of a
\* result of types_from_hir holds each (diagnostic kind, reference id) pair at
\* most once, also for an arena in which a Path reference is a child of a Tuple
\* or Array reference.
C12_NoDuplicateDiagnostics ==
    last.op = "types_from_hir" =>
        \A i, j \in 1..Len(last.result.diagnostics) :
            i # j => last.result.diagnostics[i] # last.result.diagnostics[j]

====
